---- MODULE Spec2Model ----
(***************************************************************************)
(* Model of the file/folder storage core of prostor's backend:             *)
(*   FileService     (packages/backend/src/services/file.service.ts)       *)
(*   StorageService  (packages/backend/src/services/storage.service.ts)    *)
(*   FileController  (controllers/file.controller.ts, unnamed/part_000)    *)
(*                                                                         *)
(* The three in-memory tables (files, folders, shareLinks), the quota      *)
(* counters (userStorageUsage) and the storage backend are shared by all   *)
(* request handlers.  A handler is an async function: it runs atomically   *)
(* from one await to the next, and other handlers may run in between.      *)
(* Every action below is one such run-to-the-next-await segment.  A field   *)
(* of the request (name, size, target folder, ...) is drawn in the segment  *)
(* that first reads it.                                                     *)
(*                                                                         *)
(* Byte counts are kept in a reduced unit so that the quota boundary is    *)
(* reachable with a handful of uploads (see totalBytes).                   *)
(***************************************************************************)
EXTENDS Integers, Sequences, FiniteSets, TLC

\* ------------------------------------------------------------------ bounds
NumHandlers == 2        \* request handlers that may be in flight at once
MaxIds == 4             \* uuidv4() values drawn during one run
MaxClock == 2           \* ticks of the wall clock (new Date())

\* ------------------------------------------------------- values and inputs
NULL == 0               \* null (ids start at 1)
UNDEF == -1             \* undefined: the field is absent from the request body
BogusId == -2           \* an id in a request that no uuidv4() draw has returned
Users == {"u1", "u2"}   \* authenticated req.user.id values
Names == {"a", "b"}     \* file and folder names
Sizes == {300, 400, 700}    \* req.file.size = buffer.length of an upload
Handlers == 1..NumHandlers
StorageTypes == {"local", "s3"}   \* config.storageType ('r2' behaves as 's3')

\* getUserStorageUsage: the fixed per-account quota.  The source constant is
\* 10 * 1024 * 1024 * 1024 bytes with uploads of at most 100 MiB; the model
\* keeps the comparison and scales the quota to 1000 units so that a few
\* uploads reach it.
totalBytes == 1000

\* call-stack budget of the recursive getAllSubfolderIds: deeper than any
\* acyclic chain of folders the model can build, so it is exhausted exactly
\* when the recursion does not end
StackDepth == MaxIds + 2

VARIABLES
    files,              \* const files: File[]
    folders,            \* const folders: Folder[]
    shareLinks,         \* const shareLinks: ShareLink[]
    userStorageUsage,   \* const userStorageUsage: Record<string, number>
    objects,            \* the storage backend: the stored objects (key, path, bytes)
    storageType,        \* config.storageType, fixed at startup
    nextId,             \* number of uuidv4() values drawn so far
    now,                \* the wall clock
    h,                  \* the request handlers: position and locals
    status,             \* res.status(...) sent by the latest step, 0 when it sent none
    done                \* position and locals of the handler that sent it

tables == <<files, folders, shareLinks>>
vars == <<files, folders, shareLinks, userStorageUsage, objects, storageType,
          nextId, now, h, status, done>>

\* ------------------------------------------------------------ pure helpers
Range(s) == {s[i] : i \in DOMAIN s}

\* Array.prototype.findIndex, 1-based, over the elements the predicate accepts; 0 stands for -1
RECURSIVE FindIndexFrom(_, _, _)
FindIndexFrom(s, matching, i) ==
    IF i > Len(s) THEN 0
    ELSE IF s[i] \in matching THEN i
    ELSE FindIndexFrom(s, matching, i + 1)

findIndex(s, matching) == FindIndexFrom(s, matching, 1)

\* Array.prototype.splice(index, 1); an index past the end removes nothing
splice(s, i) ==
    IF i > Len(s) THEN s
    ELSE SubSeq(s, 1, i - 1) \o SubSeq(s, i + 1, Len(s))

\* .map((x, index) => (P(x) ? index : -1)).filter(index => index !== -1)
RECURSIVE MatchingIndicesFrom(_, _, _)
MatchingIndicesFrom(s, matching, i) ==
    IF i > Len(s) THEN <<>>
    ELSE (IF s[i] \in matching THEN <<i>> ELSE <<>>) \o MatchingIndicesFrom(s, matching, i + 1)

MatchingIndices(s, matching) == MatchingIndicesFrom(s, matching, 1)

\* the sort left out: the indices stay in ascending order
sortDescending_omitted(s) == s

\* .sort((a, b) => b - a) on an ascending list of distinct indices
RECURSIVE sortDescending(_)
sortDescending(s) ==
    IF s = <<>> THEN <<>>
    ELSE <<s[Len(s)]>> \o sortDescending(SubSeq(s, 1, Len(s) - 1))

\* for (const index of indices) { table.splice(index, 1); }
RECURSIVE spliceEach(_, _)
spliceEach(s, indices) ==
    IF indices = <<>> THEN s
    ELSE spliceEach(splice(s, Head(indices)), Tail(indices))

\* ---------------------------------------------------------- StorageService
\* userStorageUsage[userId] || 0
usedBytes(usage, u) == usage[u]

\* the floor at zero left out
updateUserStorageUsage_unclamped(usage, u, sizeChange) ==
    [usage EXCEPT ![u] = usage[u] + sizeChange]

\* updateUserStorageUsage(userId, sizeChange)
updateUserStorageUsage(usage, u, sizeChange) ==
    LET raised == usage[u] + sizeChange
    IN  [usage EXCEPT ![u] = IF raised < 0 THEN 0 ELSE raised]

\* the prefix not taken from the uploader: every key under one directory
fileKey_shared(u, uuid, filename) == <<"u1", uuid, filename>>

\* fileKey = `${userId}/${uuidv4()}-${filename}`
fileKey(u, uuid, filename) == <<u, uuid, filename>>

\* fileKey.split('/')[0]
keyOwner(key) == key[1]

\* The '/'-separated pieces of a filename.  A filename without a separator is
\* one piece; the filenames with separators that requests carry are listed.
split(filename) ==
    CASE filename = "/../a" -> <<"", "..", "a">>
      [] filename = "/../../../a" -> <<"", "..", "..", "..", "a">>
      [] OTHER -> <<filename>>

\* The path segments of a key `${userId}/${uuid}-${filename}`.  A segment is
\* <<uuid, text>>: the text after the "uuid-" prefix, uuid = 0 with no prefix.
keySegments(key) ==
    LET pieces == split(key[3])
    IN  <<<<0, key[1]>>, <<key[2], pieces[1]>>>> \o
        [i \in 1..(Len(pieces) - 1) |-> <<0, pieces[i + 1]>>]

\* path.join(base, segments): normalised as it goes; an empty or "." segment
\* is dropped, ".." removes the segment before it
RECURSIVE join(_, _)
join(base, segs) ==
    IF segs = <<>> THEN base
    ELSE LET s == Head(segs)
         IN  IF s = <<0, "">> \/ s = <<0, ".">> THEN join(base, Tail(segs))
             ELSE IF s = <<0, "..">>
                  THEN join(IF base = <<>> THEN base
                            ELSE SubSeq(base, 1, Len(base) - 1), Tail(segs))
                  ELSE join(Append(base, s), Tail(segs))

\* this.localStoragePath = path.join(process.cwd(), 'uploads')
localStoragePath == <<<<0, "cwd">>, <<0, "uploads">>>>

\* where the backend keeps the object of a key: the file path.join(
\* localStoragePath, fileKey) for 'local', the key itself in the bucket
location(key) ==
    IF storageType = "local" THEN join(localStoragePath, keySegments(key))
    ELSE key

\* ------------------------------------------------------------- FileService
\* the owner test left out of the lookup
getFileById_anyOwner(fileId, userId) ==
    findIndex(files, {f \in Range(files) : f.id = fileId})

\* getFileById / getFolderById: find(f => f.id === id && f.userId === userId)
getFileById(fileId, userId) ==
    findIndex(files, {f \in Range(files) : f.id = fileId /\ f.userId = userId})

\* the owner left out of the predicate
getFolderById_anyOwner(folderId, userId) ==
    findIndex(folders, {f \in Range(folders) : f.id = folderId})

getFolderById(folderId, userId) ==
    findIndex(folders, {f \in Range(folders) : f.id = folderId /\ f.userId = userId})

\* the recursive call left out: the direct subfolders only
getAllSubfolderIds_direct(fs, folderId, fuel) ==
    [i \in 1..Len(SelectSeq(fs, LAMBDA f : f.parentId = folderId)) |->
        SelectSeq(fs, LAMBDA f : f.parentId = folderId)[i].id]

\* getAllSubfolderIds(folderId): the recursion of the source, with the call
\* stack as fuel
RECURSIVE getAllSubfolderIds(_, _, _)
RECURSIVE collectSubfolders(_, _, _)
collectSubfolders(fs, direct, fuel) ==
    IF direct = <<>> THEN <<>>
    ELSE <<Head(direct).id>>
         \o getAllSubfolderIds(fs, Head(direct).id, fuel)
         \o collectSubfolders(fs, Tail(direct), fuel)

getAllSubfolderIds(fs, folderId, fuel) ==
    IF fuel = 0 THEN <<>>
    ELSE collectSubfolders(fs,
             SelectSeq(fs, LAMBDA f : f.parentId = folderId), fuel - 1)

\* the recursion of getAllSubfolderIds exhausts the call stack (RangeError)
RECURSIVE stackOverflow(_, _, _)
stackOverflow(fs, folderId, fuel) ==
    \/ fuel = 0
    \/ \E i \in DOMAIN fs :
          fs[i].parentId = folderId /\ stackOverflow(fs, fs[i].id, fuel - 1)

\* ------------------------------------------------------------ the handlers
NoKey == <<"u1", 0, "a">>
NoName == ""            \* a name that is absent from the request body (falsy)

NoToken == <<"token", NULL>>

Idle == [pc |-> "idle", userId |-> "u1", id |-> NULL, name |-> NoName,
         size |-> 0, key |-> NoKey, used |-> 0, fileSize |-> 0,
         ids |-> <<>>, indices |-> <<>>, token |-> NoToken, link |-> NULL,
         page |-> 1, limit |-> 1, sortBy |-> "createdAt", sortOrder |-> "desc",
         total |-> 0]

\* return res.status(code).json(...): the handler ends with the given locals
RespondWith(p, locals, code) ==
    /\ h' = [h EXCEPT ![p] = Idle]
    /\ status' = code
    /\ done' = locals

Respond(p, code) == RespondWith(p, h[p], code)

\* the handler stops at an await
Await(p, locals) ==
    /\ h' = [h EXCEPT ![p] = locals]
    /\ status' = 0
    /\ done' = Idle

Init ==
    /\ files = <<>>
    /\ folders = <<>>
    /\ shareLinks = <<>>
    /\ userStorageUsage = [u \in Users |-> 0]
    /\ objects = {}
    /\ storageType \in StorageTypes
    /\ nextId = 0
    /\ now = 0
    /\ h = [p \in Handlers |-> Idle]
    /\ status = 0
    /\ done = Idle

\* ------------------------------------------------ FileController.uploadFile
\* up to the first await: getUserStorageUsage reads the counter
UploadBegin(p, u) ==
    /\ h[p].pc = "idle"
    /\ Await(p, [Idle EXCEPT !.pc = "up_checked", !.userId = u,
                 !.used = usedBytes(userStorageUsage, u)])
    /\ UNCHANGED <<tables, userStorageUsage, objects, storageType, nextId, now>>

\* the quota check on the usage that was read: 400 'Storage quota exceeded'
UploadReject(p, size) ==
    /\ h[p].pc = "up_checked"
    /\ h[p].used + size > totalBytes
    /\ Respond(p, 400)
    /\ UNCHANGED <<tables, userStorageUsage, objects, storageType, nextId, now>>

\* the quota check left out: the upload goes ahead whatever the usage
UploadStart_unchecked(p, size, filename) ==
    /\ h[p].pc = "up_checked"
    /\ nextId < MaxIds
    /\ nextId' = nextId + 1
    /\ userStorageUsage' =
          updateUserStorageUsage(userStorageUsage, h[p].userId, size)
    /\ Await(p, [h[p] EXCEPT !.pc = "up_put", !.size = size, !.name = filename,
                      !.key = fileKey(h[p].userId, nextId + 1, filename)])
    /\ UNCHANGED <<tables, objects, storageType, now>>

\* StorageService.uploadFile up to the backend write: the key is built, the
\* usage is raised, the put is started
UploadStart(p, size, filename) ==
    /\ h[p].pc = "up_checked"
    /\ ~(h[p].used + size > totalBytes)
    /\ nextId < MaxIds
    /\ nextId' = nextId + 1
    /\ userStorageUsage' =
          updateUserStorageUsage(userStorageUsage, h[p].userId, size)
    /\ Await(p, [h[p] EXCEPT !.pc = "up_put", !.size = size, !.name = filename,
                      !.key = fileKey(h[p].userId, nextId + 1, filename)])
    /\ UNCHANGED <<tables, objects, storageType, now>>

\* uploadToS3 / uploadToLocalStorage: the write completes
PutOk(p) ==
    /\ h[p].pc = "up_put"
    /\ objects' = {o \in objects : o.path # location(h[p].key)} \cup
                   {[key |-> h[p].key, path |-> location(h[p].key),
                     bytes |-> h[p].size]}
    /\ Await(p, [h[p] EXCEPT !.pc = "up_stored"])
    /\ UNCHANGED <<tables, userStorageUsage, storageType, nextId, now>>

\* the error of the write swallowed: the handler goes on to createFile
PutFail_swallowed(p) ==
    /\ h[p].pc = "up_put"
    /\ Await(p, [h[p] EXCEPT !.pc = "up_stored"])
    /\ UNCHANGED <<tables, userStorageUsage, objects, storageType, nextId, now>>

\* uploadToS3 / uploadToLocalStorage throws: caught by the handler, 500
PutFail(p) ==
    /\ h[p].pc = "up_put"
    /\ Respond(p, 500)
    /\ UNCHANGED <<tables, userStorageUsage, objects, storageType, nextId, now>>

\* FileService.createFile with folderId || null, then 201
UploadCreateFile(p, folderId) ==
    /\ h[p].pc = "up_stored"
    /\ nextId < MaxIds
    /\ nextId' = nextId + 1
    /\ files' = Append(files,
          [id |-> nextId + 1, userId |-> h[p].userId, name |-> h[p].name,
           size |-> h[p].size, key |-> h[p].key,
           folderId |-> folderId,
           createdAt |-> now, updatedAt |-> now])
    /\ Respond(p, 201)
    /\ UNCHANGED <<folders, shareLinks, userStorageUsage, objects, storageType, now>>

\* ------------------------------------------------ FileController.deleteFile
\* getFileById: 404 when the file is absent or not the caller's
DeleteFileBegin(p, u, fileId) ==
    /\ h[p].pc = "idle"
    /\ LET i == getFileById(fileId, u)
           l == [Idle EXCEPT !.pc = "del_found", !.userId = u, !.id = fileId]
       IN  IF i = 0 THEN RespondWith(p, l, 404)
           ELSE Await(p, [l EXCEPT !.key = files[i].key, !.size = files[i].size])
    /\ UNCHANGED <<tables, userStorageUsage, objects, storageType, nextId, now>>

\* getFileSize: fs.promises.stat for 'local' (0 when it throws), 0 otherwise
StoredSize(key) ==
    IF \E o \in objects : o.path = location(key)
    THEN (CHOOSE o \in objects : o.path = location(key)).bytes
    ELSE 0

getFileSize(key) == IF storageType = "local" THEN StoredSize(key) ELSE 0

DeleteFileStat(p) ==
    /\ h[p].pc = "del_found"
    /\ Await(p, [h[p] EXCEPT !.pc = "del_sized",
                               !.fileSize = getFileSize(h[p].key)])
    /\ UNCHANGED <<tables, userStorageUsage, objects, storageType, nextId, now>>

\* StorageService.deleteFile after getFileSize: the usage of the key's first
\* segment is lowered, the backend delete is started
DeleteFileRelease(p) ==
    /\ h[p].pc = "del_sized"
    /\ userStorageUsage' =
          updateUserStorageUsage(userStorageUsage, keyOwner(h[p].key),
                                 -h[p].fileSize)
    /\ Await(p, [h[p] EXCEPT !.pc = "del_unlink"])
    /\ UNCHANGED <<tables, objects, storageType, nextId, now>>

\* deleteFromS3 (DeleteObject succeeds on an absent key) / deleteFromLocalStorage
\* (fs.promises.unlink throws ENOENT on an absent path)
BackendDeleteOk(p) ==
    /\ h[p].pc = "del_unlink"
    /\ storageType = "local" => \E o \in objects : o.path = location(h[p].key)
    /\ objects' = {o \in objects : o.path # location(h[p].key)}
    /\ Await(p, [h[p] EXCEPT !.pc = "del_removed"])
    /\ UNCHANGED <<tables, userStorageUsage, storageType, nextId, now>>

\* the backend delete throws: caught by the handler, 500
BackendDeleteFail(p) ==
    /\ h[p].pc = "del_unlink"
    /\ Respond(p, 500)
    /\ UNCHANGED <<tables, userStorageUsage, objects, storageType, nextId, now>>

\* FileService.deleteFile(fileId): the file and its share links are removed
deleteFileRows(fs, fileId) ==
    splice(fs, findIndex(fs, {f \in Range(fs) : f.id = fileId}))

deleteFileLinks(ls, fileId) ==
    spliceEach(ls,
        sortDescending(MatchingIndices(ls, {l \in Range(ls) : l.fileId = fileId})))

DeleteFileMeta(p) ==
    /\ h[p].pc = "del_removed"
    /\ IF findIndex(files, {f \in Range(files) : f.id = h[p].id}) = 0
       THEN /\ Respond(p, 500)       \* 'File not found' is thrown
            /\ UNCHANGED tables
       ELSE /\ files' = deleteFileRows(files, h[p].id)
            /\ shareLinks' = deleteFileLinks(shareLinks, h[p].id)
            /\ Respond(p, 200)
            /\ UNCHANGED folders
    /\ UNCHANGED <<userStorageUsage, objects, storageType, nextId, now>>

\* ---------------------------------------------- FileController.downloadFile
\* getFileById: 404 when the file is absent or not the caller's
DownloadBegin(p, u, fileId) ==
    /\ h[p].pc = "idle"
    /\ LET i == getFileById(fileId, u)
           l == [Idle EXCEPT !.pc = "dl_found", !.userId = u, !.id = fileId]
       IN  IF i = 0 THEN RespondWith(p, l, 404)
           ELSE Await(p, [l EXCEPT !.key = files[i].key, !.size = files[i].size])
    /\ UNCHANGED <<tables, userStorageUsage, objects, storageType, nextId, now>>

\* StorageService.getFile: the stored bytes are sent (fileSize: their length)
DownloadOk(p) ==
    /\ h[p].pc = "dl_found"
    /\ \E o \in objects : o.path = location(h[p].key)
    /\ RespondWith(p, [h[p] EXCEPT !.fileSize = StoredSize(h[p].key)], 200)
    /\ UNCHANGED <<tables, userStorageUsage, objects, storageType, nextId, now>>

\* getFromS3 / getFromLocalStorage throws: caught by the handler, 500
DownloadFail(p) ==
    /\ h[p].pc = "dl_found"
    /\ Respond(p, 500)
    /\ UNCHANGED <<tables, userStorageUsage, objects, storageType, nextId, now>>

\* ------------------------------------------------- FileController.listFiles
\* Array.prototype.slice(start, end): a negative index counts from the end,
\* both are clamped to 0..length
sliceIndex(len, k) ==
    IF k < 0 THEN (IF len + k < 0 THEN 0 ELSE len + k)
    ELSE (IF k > len THEN len ELSE k)

slice(s, start, end) ==
    LET from == sliceIndex(Len(s), start)
        to == sliceIndex(Len(s), end)
    IN  IF from >= to THEN <<>> ELSE SubSeq(s, from + 1, to)

\* a[sortBy] for the numeric attributes of a File
sortValue(f, sortBy) == IF sortBy = "size" THEN f.size ELSE f.createdAt

\* the comparator of listFiles: 1 or -1, never 0
compare(a, b, sortBy, sortOrder) ==
    IF sortOrder = "asc"
    THEN (IF sortValue(a, sortBy) > sortValue(b, sortBy) THEN 1 ELSE -1)
    ELSE (IF sortValue(a, sortBy) < sortValue(b, sortBy) THEN 1 ELSE -1)

\* Array.prototype.sort with that comparator, as an insertion sort: each
\* element moves left past the elements the comparator puts after it
RECURSIVE insertSorted(_, _, _, _)
insertSorted(sorted, x, sortBy, sortOrder) ==
    IF sorted = <<>> THEN <<x>>
    ELSE IF compare(sorted[Len(sorted)], x, sortBy, sortOrder) > 0
         THEN Append(insertSorted(SubSeq(sorted, 1, Len(sorted) - 1), x,
                                  sortBy, sortOrder),
                     sorted[Len(sorted)])
         ELSE Append(sorted, x)

RECURSIVE sort(_, _, _)
sort(s, sortBy, sortOrder) ==
    IF s = <<>> THEN <<>>
    ELSE insertSorted(sort(SubSeq(s, 1, Len(s) - 1), sortBy, sortOrder),
                      s[Len(s)], sortBy, sortOrder)

\* files.filter(userId).filter(folderId), sorted
filteredFiles(fls, userId, folderId, sortBy, sortOrder) ==
    sort(SelectSeq(fls, LAMBDA f : f.userId = userId /\ f.folderId = folderId),
         sortBy, sortOrder)

\* the page taken as 0-based: the slice starts at page * limit
paginatedFiles_zeroBased(fls, userId, folderId, page, limit, sortBy, sortOrder) ==
    slice(filteredFiles(fls, userId, folderId, sortBy, sortOrder),
          page * limit, page * limit + limit)

\* FileService.listFiles(...).files
paginatedFiles(fls, userId, folderId, page, limit, sortBy, sortOrder) ==
    slice(filteredFiles(fls, userId, folderId, sortBy, sortOrder),
          (page - 1) * limit, (page - 1) * limit + limit)

\* the handler has no await before the service call and the service call has
\* none: one step, 200 with the slice (ids: the ids of its files) and total
ListFiles(p, u, folderId, page, limit, sortBy, sortOrder) ==
    /\ h[p].pc = "idle"
    /\ RespondWith(p, [Idle EXCEPT !.pc = "list", !.userId = u, !.id = folderId,
                          !.page = page, !.limit = limit, !.sortBy = sortBy,
                          !.sortOrder = sortOrder,
                          !.total = Len(filteredFiles(files, u, folderId, sortBy, sortOrder)),
                          !.ids = LET fs == paginatedFiles(files, u, folderId, page,
                                                          limit, sortBy, sortOrder)
                                  IN  [i \in 1..Len(fs) |-> fs[i].id]], 200)
    /\ UNCHANGED <<tables, userStorageUsage, objects, storageType, nextId, now>>

\* ---------------------------------------------- FileController.createFolder
\* no await before fileService.createFolder; parentId || null
CreateFolder(p, u, name, parentId) ==
    /\ h[p].pc = "idle"
    /\ nextId < MaxIds
    /\ nextId' = nextId + 1
    /\ folders' = Append(folders,
          [id |-> nextId + 1, userId |-> u, name |-> name,
           parentId |-> parentId, createdAt |-> now, updatedAt |-> now])
    /\ RespondWith(p, [Idle EXCEPT !.pc = "cf", !.userId = u, !.id = nextId + 1], 201)
    /\ UNCHANGED <<files, shareLinks, userStorageUsage, objects, storageType, now>>

\* ---------------------------------------------- FileController.updateFolder
UpdateFolderBegin(p, u, folderId) ==
    /\ h[p].pc = "idle"
    /\ LET l == [Idle EXCEPT !.pc = "uf_found", !.userId = u, !.id = folderId]
       IN  IF getFolderById(folderId, u) = 0 THEN RespondWith(p, l, 404) ELSE Await(p, l)
    /\ UNCHANGED <<tables, userStorageUsage, objects, storageType, nextId, now>>

\* FileService.updateFolder(folderId, { name, parentId })
updateFolder(fs, folderId, name, parentId, t) ==
    LET i == findIndex(fs, {f \in Range(fs) : f.id = folderId})
    IN  [fs EXCEPT ![i] = [@ EXCEPT
            !.name = IF name # NoName THEN name ELSE @,
            !.parentId = IF parentId # UNDEF THEN parentId ELSE @,
            !.updatedAt = t]]

UpdateFolderRun(p, name, parentId) ==
    /\ h[p].pc = "uf_found"
    /\ IF findIndex(folders, {f \in Range(folders) : f.id = h[p].id}) = 0
       THEN /\ Respond(p, 500)       \* 'Folder not found' is thrown
            /\ UNCHANGED folders
       ELSE /\ folders' = updateFolder(folders, h[p].id, name, parentId, now)
            /\ Respond(p, 200)
    /\ UNCHANGED <<files, shareLinks, userStorageUsage, objects, storageType, nextId, now>>

\* ---------------------------------------------- FileController.deleteFolder
DeleteFolderBegin(p, u, folderId) ==
    /\ h[p].pc = "idle"
    /\ LET l == [Idle EXCEPT !.pc = "df_found", !.userId = u, !.id = folderId]
       IN  IF getFolderById(folderId, u) = 0 THEN RespondWith(p, l, 404) ELSE Await(p, l)
    /\ UNCHANGED <<tables, userStorageUsage, objects, storageType, nextId, now>>

\* FileService.deleteFolder(folderId, userId): allFolderIds, then the two
\* splice loops
allFolderIds(fs, folderId) ==
    Append(getAllSubfolderIds(fs, folderId, StackDepth), folderId)

fileIndices(fls, ids) ==
    sortDescending(MatchingIndices(fls, {f \in Range(fls) : f.folderId \in Range(ids)}))

deleteFolderFiles(fls, ids) == spliceEach(fls, fileIndices(fls, ids))

deleteFolderRows(fs, ids) ==
    spliceEach(fs,
        sortDescending(MatchingIndices(fs, {f \in Range(fs) : f.id \in Range(ids)})))

\* the cascade yielding between its two loops: the files are removed in one
\* step, the folders of the closure computed then in a later one
DeleteFolderRun_yielding(p) ==
    /\ h[p].pc = "df_found"
    /\ IF h[p].ids = <<>>
       THEN IF \/ getFolderById(h[p].id, h[p].userId) = 0
               \/ stackOverflow(folders, h[p].id, StackDepth)
            THEN /\ Respond(p, 500)
                 /\ UNCHANGED <<files, folders>>
            ELSE LET ids == allFolderIds(folders, h[p].id)
                 IN  /\ files' = deleteFolderFiles(files, ids)
                     /\ Await(p, [h[p] EXCEPT !.ids = ids,
                                    !.indices = fileIndices(files, ids)])
                     /\ UNCHANGED folders
       ELSE /\ folders' = deleteFolderRows(folders, h[p].ids)
            /\ Respond(p, 200)
            /\ UNCHANGED files
    /\ UNCHANGED <<shareLinks, userStorageUsage, objects, storageType, nextId, now>>

DeleteFolderRun(p) ==
    /\ h[p].pc = "df_found"
    /\ IF \/ getFolderById(h[p].id, h[p].userId) = 0     \* 'Folder not found'
          \/ stackOverflow(folders, h[p].id, StackDepth) \* RangeError
       THEN /\ Respond(p, 500)
            /\ UNCHANGED <<files, folders>>
       ELSE LET ids == allFolderIds(folders, h[p].id)
            IN  /\ files' = deleteFolderFiles(files, ids)
                /\ folders' = deleteFolderRows(folders, ids)
                /\ RespondWith(p, [h[p] EXCEPT !.ids = ids,
                                    !.indices = fileIndices(files, ids)], 200)
    /\ UNCHANGED <<shareLinks, userStorageUsage, objects, storageType, nextId, now>>

\* ------------------------------------------------ FileController.updateFile
UpdateFileBegin(p, u, fileId) ==
    /\ h[p].pc = "idle"
    /\ LET l == [Idle EXCEPT !.pc = "ufl_found", !.userId = u, !.id = fileId]
       IN  IF getFileById(fileId, u) = 0 THEN RespondWith(p, l, 404) ELSE Await(p, l)
    /\ UNCHANGED <<tables, userStorageUsage, objects, storageType, nextId, now>>

\* the record rebuilt instead of copied: createdAt stamped again
updateFile_restamped(fls, fileId, name, folderId, t) ==
    LET i == findIndex(fls, {f \in Range(fls) : f.id = fileId})
    IN  [fls EXCEPT ![i] = [@ EXCEPT
            !.name = IF name # NoName THEN name ELSE @,
            !.folderId = IF folderId # UNDEF THEN folderId ELSE @,
            !.createdAt = t,
            !.updatedAt = t]]

\* FileService.updateFile(fileId, { name, folderId })
updateFile(fls, fileId, name, folderId, t) ==
    LET i == findIndex(fls, {f \in Range(fls) : f.id = fileId})
    IN  [fls EXCEPT ![i] = [@ EXCEPT
            !.name = IF name # NoName THEN name ELSE @,
            !.folderId = IF folderId # UNDEF THEN folderId ELSE @,
            !.updatedAt = t]]

UpdateFileRun(p, name, folderId) ==
    /\ h[p].pc = "ufl_found"
    /\ IF findIndex(files, {f \in Range(files) : f.id = h[p].id}) = 0
       THEN /\ Respond(p, 500)       \* 'File not found' is thrown
            /\ UNCHANGED files
       ELSE /\ files' = updateFile(files, h[p].id, name, folderId, now)
            /\ Respond(p, 200)
    /\ UNCHANGED <<folders, shareLinks, userStorageUsage, objects, storageType, nextId, now>>

\* ------------------------------------------------- FileController.shareFile
ShareFileBegin(p, u, fileId) ==
    /\ h[p].pc = "idle"
    /\ LET l == [Idle EXCEPT !.pc = "sh_found", !.userId = u, !.id = fileId]
       IN  IF getFileById(fileId, u) = 0 THEN RespondWith(p, l, 404) ELSE Await(p, l)
    /\ UNCHANGED <<tables, userStorageUsage, objects, storageType, nextId, now>>

\* FileService.createShareLink.  id and token are two uuidv4() draws; a token
\* is only ever compared with tokens, so the second draw is numbered by the
\* link it is made for
newToken(linkId) == <<"token", linkId>>

ShareFileRun(p, expiresAt) ==
    /\ h[p].pc = "sh_found"
    /\ nextId < MaxIds
    /\ nextId' = nextId + 1
    /\ shareLinks' = Append(shareLinks,
          [id |-> nextId + 1, fileId |-> h[p].id, userId |-> h[p].userId,
           token |-> newToken(nextId + 1), expiresAt |-> expiresAt,
           createdAt |-> now])
    /\ Respond(p, 201)
    /\ UNCHANGED <<files, folders, userStorageUsage, objects, storageType, now>>

\* ------------------------------------------- FileController.removeFileShare
RemoveShareBegin(p, u, fileId) ==
    /\ h[p].pc = "idle"
    /\ LET l == [Idle EXCEPT !.pc = "rs_found", !.userId = u, !.id = fileId]
       IN  IF getFileById(fileId, u) = 0 THEN RespondWith(p, l, 404) ELSE Await(p, l)
    /\ UNCHANGED <<tables, userStorageUsage, objects, storageType, nextId, now>>

\* deleteShareLink with the owner test left out
deleteShareLinkIndex_anyOwner(ls, shareLinkId, userId) ==
    findIndex(ls, {s \in Range(ls) : s.id = shareLinkId})

\* FileService.deleteShareLink(shareLinkId, userId): the index that is
\* spliced out, 0 when 'Share link not found' is thrown
deleteShareLinkIndex(ls, shareLinkId, userId) ==
    findIndex(ls, {s \in Range(ls) : s.id = shareLinkId /\ s.userId = userId})

\* removeFileShare after the file lookup; the shareId of the request is kept
\* in link
RemoveShareRun(p, shareId) ==
    /\ h[p].pc = "rs_found"
    /\ LET i == deleteShareLinkIndex(shareLinks, shareId, h[p].userId)
           l == [h[p] EXCEPT !.link = shareId]
       IN  IF i = 0
           THEN /\ RespondWith(p, l, 500)
                /\ UNCHANGED shareLinks
           ELSE /\ shareLinks' = splice(shareLinks, i)
                /\ RespondWith(p, l, 200)
    /\ UNCHANGED <<files, folders, userStorageUsage, objects, storageType, nextId, now>>

\* ----------------------------------------- FileService.getShareLinkByToken
\* the link expired at time t: shareLink.expiresAt && new Date() > shareLink.expiresAt
expired(l, t) == l.expiresAt # NULL /\ t > l.expiresAt

\* the expiry test left out: any stored link is returned
getShareLinkByToken_noExpiry(ls, token, t) ==
    LET i == findIndex(ls, {s \in Range(ls) : s.token = token})
    IN  IF i = 0 THEN NULL ELSE ls[i].id

\* the id of the link that is returned, NULL for null
getShareLinkByToken(ls, token, t) ==
    LET i == findIndex(ls, {s \in Range(ls) : s.token = token})
    IN  IF i = 0 THEN NULL
        ELSE IF expired(ls[i], t) THEN NULL
        ELSE ls[i].id

\* the lookup purging what it finds expired
Resolve_purging(token) ==
    /\ status' = 0
    /\ done' = [Idle EXCEPT !.pc = "resolve", !.token = token,
                            !.link = getShareLinkByToken(shareLinks, token, now)]
    /\ shareLinks' = SelectSeq(shareLinks,
                               LAMBDA l : ~(l.token = token /\ expired(l, now)))
    /\ UNCHANGED <<files, folders, userStorageUsage, objects, storageType, nextId, now, h>>

\* a call of getShareLinkByToken (it has no await: one step); the call and
\* its result are recorded in done
Resolve(token) ==
    /\ status' = 0
    /\ done' = [Idle EXCEPT !.pc = "resolve", !.token = token,
                            !.link = getShareLinkByToken(shareLinks, token, now)]
    /\ UNCHANGED <<tables, userStorageUsage, objects, storageType, nextId, now, h>>

\* a call of FileService.deleteShareLink(shareLinkId, userId) by itself (it
\* has no await: one step); the call is recorded in done, status is 200 when
\* it returns and 500 when it throws
Revoke(u, shareId) ==
    /\ LET i == deleteShareLinkIndex(shareLinks, shareId, u)
           l == [Idle EXCEPT !.pc = "revoke", !.userId = u, !.link = shareId]
       IN  IF i = 0
           THEN /\ status' = 500
                /\ done' = l
                /\ UNCHANGED shareLinks
           ELSE /\ shareLinks' = splice(shareLinks, i)
                /\ status' = 200
                /\ done' = l
    /\ UNCHANGED <<files, folders, userStorageUsage, objects, storageType, nextId, now, h>>

\* a call of FileService.updateFile, updateFolder, deleteFile or deleteFolder
\* by itself, with the arguments as given: the handler's lookup before the
\* call is skipped, the method runs in the next step
ServiceMethods == {"ufl_found", "uf_found", "del_removed", "df_found"}

ServiceCall(p, method, u, id) ==
    /\ h[p].pc = "idle"
    /\ method \in ServiceMethods
    /\ Await(p, [Idle EXCEPT !.pc = method, !.userId = u, !.id = id])
    /\ UNCHANGED <<tables, userStorageUsage, objects, storageType, nextId, now>>

\* ------------------------------------------------------------ specifications
\* The handlers, grouped by route, with the request inputs drawn from the
\* given sets (US: callers, NS: names, SS: sizes, FS: folder references).
Issued == 1..nextId                     \* the ids a client can have learnt
Ids == Issued \cup {BogusId}
ParentInputs == {NULL} \cup Ids

UploadSteps(p, US, NS, SS, FS) ==
    \/ \E u \in US : UploadBegin(p, u)
    \/ \E s \in SS : UploadReject(p, s)
    \/ \E s \in SS, n \in NS : UploadStart(p, s, n)
    \/ PutOk(p)
    \/ PutFail(p)
    \/ \E f \in FS : UploadCreateFile(p, f)

DeleteFileSteps(p, US) ==
    \/ \E u \in US, f \in Ids : DeleteFileBegin(p, u, f)
    \/ DeleteFileStat(p)
    \/ DeleteFileRelease(p)
    \/ BackendDeleteOk(p)
    \/ BackendDeleteFail(p)
    \/ DeleteFileMeta(p)

CreateFolderSteps(p, US, NS, FS) ==
    \E u \in US, n \in NS, f \in FS : CreateFolder(p, u, n, f)

UpdateFolderSteps(p, US, NS, FS) ==
    \/ \E u \in US, f \in Ids : UpdateFolderBegin(p, u, f)
    \/ \E n \in NS, q \in FS : UpdateFolderRun(p, n, q)

DeleteFolderSteps(p, US) ==
    \/ \E u \in US, f \in Ids : DeleteFolderBegin(p, u, f)
    \/ DeleteFolderRun(p)

UpdateFileSteps(p, US, NS, FS) ==
    \/ \E u \in US, f \in Ids : UpdateFileBegin(p, u, f)
    \/ \E n \in NS, q \in FS : UpdateFileRun(p, n, q)

DownloadSteps(p, US) ==
    \/ \E u \in US, f \in Ids : DownloadBegin(p, u, f)
    \/ DownloadOk(p)
    \/ DownloadFail(p)

ShareSteps(p, US) ==
    \/ \E u \in US, f \in Ids : ShareFileBegin(p, u, f)
    \/ \E e \in {NULL} \cup 1..MaxClock : ShareFileRun(p, e)
    \/ \E u \in US, f \in Ids : RemoveShareBegin(p, u, f)
    \/ \E s \in Ids : RemoveShareRun(p, s)

\* new Date() advances
Tick ==
    /\ now < MaxClock
    /\ now' = now + 1
    /\ status' = 0
    /\ done' = Idle
    /\ UNCHANGED <<tables, userStorageUsage, objects, storageType, nextId, h>>

\* Two or more requests of one owner in flight at once, interleaved at their
\* awaits: uploads and file deletes racing on the quota counter.
NextQuota ==
    \E p \in Handlers :
        \/ UploadSteps(p, {"u1"}, {"a"}, Sizes, {NULL})
        \/ DeleteFileSteps(p, {"u1"})

SpecQuota == Init /\ [][NextQuota]_vars

\* One request at a time: uploads, file deletes and folder deletes of one
\* owner, each handler running to its response before the next starts.
NextSeq ==
    \/ UploadSteps(1, {"u1"}, {"a"}, Sizes, ParentInputs)
    \/ DeleteFileSteps(1, {"u1"})
    \/ CreateFolderSteps(1, {"u1"}, {"a"}, {NULL})
    \/ DeleteFolderSteps(1, {"u1"})

SpecSeq == Init /\ [][NextSeq]_vars

\* The folder tree: create, move and delete of folders, with files placed in
\* them, one request at a time.
NextTree ==
    \/ CreateFolderSteps(1, {"u1"}, {"a"}, {NULL} \cup Issued)
    \/ UpdateFolderSteps(1, {"u1"}, {NoName}, {NULL} \cup Issued)
    \/ DeleteFolderSteps(1, {"u1"})
    \/ UploadSteps(1, {"u1"}, {"a"}, {300}, {NULL} \cup Issued)

InitLocal == Init /\ storageType = "local"

SpecTree == InitLocal /\ [][NextTree]_vars

\* Share links of one owner's files, with the deletes that must take them
\* along, one request at a time.
NextShare ==
    \/ UploadSteps(1, {"u1"}, {"a"}, {300}, {NULL} \cup Issued)
    \/ CreateFolderSteps(1, {"u1"}, {"a"}, {NULL})
    \/ ShareSteps(1, {"u1"})
    \/ DeleteFileSteps(1, {"u1"})
    \/ DeleteFolderSteps(1, {"u1"})

SpecShare == Init /\ [][NextShare]_vars

\* Share links over time: links are issued with and without an expiry,
\* revoked, removed with their file, and looked up by token while the clock
\* advances, one request at a time, the storage backend being available.
Tokens == {newToken(i) : i \in Ids}

NextLinks ==
    \/ UploadBegin(1, "u1") \/ UploadStart(1, 300, "a") \/ PutOk(1)
    \/ UploadCreateFile(1, NULL)
    \/ ShareSteps(1, {"u1"})
    \/ \E f \in Ids : DeleteFileBegin(1, "u1", f)
    \/ DeleteFileStat(1) \/ DeleteFileRelease(1) \/ BackendDeleteOk(1)
    \/ DeleteFileMeta(1)
    \/ Tick
    \/ \E k \in Tokens : Resolve(k)

SpecLinks == InitLocal /\ [][NextLinks]_vars

\* A folder delete of one owner racing with the owner's other structural
\* requests: handler 1 creates and deletes folders while handler 2 uploads
\* files into folders and moves files between them, interleaved at their
\* awaits.
NextCascade ==
    \/ CreateFolderSteps(1, {"u1"}, {"a"}, {NULL} \cup Issued)
    \/ DeleteFolderSteps(1, {"u1"})
    \/ UploadBegin(2, "u1") \/ UploadStart(2, 300, "a") \/ PutOk(2)
    \/ \E f \in Issued : UploadCreateFile(2, f)
    \/ \E f \in Issued : UpdateFileBegin(2, "u1", f)
    \/ \E q \in Issued : UpdateFileRun(2, NoName, q)

SpecCascade == InitLocal /\ [][NextCascade]_vars

\* Moves of files and folders of one owner, one request at a time.
NextMove ==
    \/ UploadSteps(1, {"u1"}, {"a"}, {300}, {NULL})
    \/ CreateFolderSteps(1, {"u1"}, {"a"}, {NULL})
    \/ UpdateFileSteps(1, {"u1"}, {NoName}, {UNDEF, NULL} \cup Ids)
    \/ UpdateFolderSteps(1, {"u1"}, {NoName}, {UNDEF, NULL} \cup Ids)

SpecMove == InitLocal /\ [][NextMove]_vars

\* Two owners: u1 stores files and folders, and both u1 and u2 call the
\* update, delete, download and share handlers with the ids they have seen,
\* one request at a time, the storage backend being available.
NextOwners ==
    \/ UploadBegin(1, "u1") \/ UploadStart(1, 300, "a") \/ PutOk(1)
    \/ UploadCreateFile(1, NULL)
    \/ CreateFolder(1, "u1", "a", NULL)
    \/ \E u \in Users, f \in Ids : UpdateFileBegin(1, u, f)
    \/ UpdateFileRun(1, "b", UNDEF)
    \/ \E u \in Users, f \in Ids : UpdateFolderBegin(1, u, f)
    \/ UpdateFolderRun(1, "b", UNDEF)
    \/ \E u \in Users, f \in Ids : DeleteFileBegin(1, u, f)
    \/ DeleteFileStat(1) \/ DeleteFileRelease(1) \/ BackendDeleteOk(1)
    \/ DeleteFileMeta(1)
    \/ DeleteFolderSteps(1, Users)
    \/ \E u \in Users, f \in Ids : DownloadBegin(1, u, f)
    \/ DownloadOk(1)
    \/ \E u \in Users, f \in Ids : ShareFileBegin(1, u, f)
    \/ ShareFileRun(1, NULL)

SpecOwners == InitLocal /\ [][NextOwners]_vars

\* Two owners who both store files, share them and revoke share links by
\* id, through the handler and by calls of deleteShareLink, one request at a
\* time, the storage backend being available.
NextRevoke ==
    \/ \E u \in Users : UploadBegin(1, u)
    \/ UploadStart(1, 300, "a") \/ PutOk(1) \/ UploadCreateFile(1, NULL)
    \/ \E u \in Users, f \in Issued : ShareFileBegin(1, u, f)
    \/ ShareFileRun(1, NULL)
    \/ \E u \in Users, f \in Issued : RemoveShareBegin(1, u, f)
    \/ \E s \in Ids : RemoveShareRun(1, s)
    \/ \E u \in Users, s \in Ids : Revoke(u, s)

SpecRevoke == InitLocal /\ [][NextRevoke]_vars

\* Uploads of one owner by handler 1 and deletes of the owner's files by
\* handlers 1 and 2, interleaved at their awaits: a delete that is repeated
\* while the first one is still running.
NextDrift ==
    \/ UploadSteps(1, {"u1"}, {"a"}, {300, 700}, {NULL})
    \/ DeleteFileSteps(1, {"u1"})
    \/ DeleteFileSteps(2, {"u1"})

SpecDrift == Init /\ [][NextDrift]_vars

\* Listings: two owners upload files of different sizes at different times
\* into the root or under a folder id, and u1 lists page by page, one request
\* at a time, the storage backend being available.
Pages == -1..3          \* req.query.page
Limits == {1, 2}        \* req.query.limit
SortKeys == {"createdAt", "size"}
SortOrders == {"asc", "desc"}
ListedFolders == {NULL, 1}

NextList ==
    \/ \E u \in Users : UploadBegin(1, u)
    \/ \E s \in {300, 400} : UploadStart(1, s, "a")
    \/ PutOk(1)
    \/ \E f \in ListedFolders : UploadCreateFile(1, f)
    \/ Tick
    \/ \E f \in ListedFolders, pg \in Pages, l \in Limits,
          k \in SortKeys, o \in SortOrders : ListFiles(1, "u1", f, pg, l, k, o)

SpecList == InitLocal /\ [][NextList]_vars

\* ------------------------------------------------- definitions for the claims
\* no request is in flight
Quiescent == \A p \in Handlers : h[p].pc = "idle"

\* sum of size over the File records of owner u
RECURSIVE SumSizes(_, _)
SumSizes(fls, u) ==
    IF fls = <<>> THEN 0
    ELSE (IF Head(fls).userId = u THEN Head(fls).size ELSE 0) + SumSizes(Tail(fls), u)

\* the parentId of the folder with this id, NULL when there is none
ParentOf(fs, id) ==
    IF \E i \in DOMAIN fs : fs[i].id = id
    THEN fs[CHOOSE i \in DOMAIN fs : fs[i].id = id].parentId
    ELSE NULL

\* the folder reached from id by following parentId k times
RECURSIVE AncestorAt(_, _, _)
AncestorAt(fs, id, k) ==
    IF k = 0 THEN id ELSE AncestorAt(fs, ParentOf(fs, id), k - 1)

\* a is a proper ancestor of id
IsAncestor(fs, a, id) == \E k \in 1..Len(fs) : AncestorAt(fs, id, k) = a

\* F and the ids of its transitive descendants, by walking up from each folder
Closure(fs, F) == {F} \cup {fs[i].id : i \in {j \in DOMAIN fs : IsAncestor(fs, F, fs[j].id)}}

\* the rows of a table that lie outside a set of folders
FoldersOutside(fs, D) == SelectSeq(fs, LAMBDA f : f.id \notin D)
FilesOutside(fls, D) == SelectSeq(fls, LAMBDA f : f.folderId \notin D)

\* the step is FileService.deleteFolder completing for handler p
DeleteFolderDone(p) ==
    h[p].pc = "df_found" /\ h'[p].pc = "idle" /\ status' = 200

\* ---------------------------------------------------------------- the claims
\* C1: whenever no request is in flight, the sizes of each owner's File
\* records add up to the owner's userStorageUsage.
C1_QuotaExact ==
    Quiescent => \A u \in Users : SumSizes(files, u) = userStorageUsage[u]

\* C2: two uploads of size S by one owner that both read a usage (the sizes
\* of the owner's files) leaving exactly S bytes are never both let through:
\* they are never both past the quota check with their objects stored.
C2_ExactlyOneSucceeds ==
    \A p, q \in Handlers :
        (/\ p # q
         /\ h[p].userId = h[q].userId
         /\ h[p].size = h[q].size
         /\ h[p].used = h[q].used
         /\ h[p].used = SumSizes(files, h[p].userId)
         /\ h[p].used + h[p].size = totalBytes)
        => ~(h[p].pc = "up_stored" /\ h[q].pc = "up_stored")

\* C3: the parentId links of the folders are acyclic: no folder is its own
\* ancestor.
C3_Forest ==
    \A i \in DOMAIN folders : ~IsAncestor(folders, folders[i].id, folders[i].id)

\* C4: an updateFolder whose new parent is the folder itself or one of its
\* descendants is answered with an error and leaves folders and files as they
\* were.
C4_MoveIntoSubtreeFails ==
    [][\A q \in Issued :
          (/\ h[1].pc = "uf_found"
           /\ q \in Closure(folders, h[1].id)
           /\ UpdateFolderRun(1, NoName, q))
          => (status' >= 400 /\ folders' = folders /\ files' = files)]_vars

\* C5: after a successful deleteFolder(F), no folder that was F or a
\* descendant of F is left, and no file whose folderId was one of them.
C5_CascadeComplete ==
    [][\A p \in Handlers : DeleteFolderDone(p) =>
          LET D == Closure(folders, h[p].id)
          IN  /\ \A f \in Range(folders') : f.id \notin D
              /\ \A f \in Range(files') : f.folderId \notin D]_vars

\* a deleteFolder has just removed a folder with a subfolder and a file
C5_Witness ==
    /\ status = 200
    /\ done.pc = "df_found"
    /\ Len(done.ids) >= 2
    /\ Len(done.indices) >= 1

\* C6: a successful deleteFolder(F) leaves every folder outside the closure
\* of F and every file whose folderId is outside it in place and unchanged.
C6_CascadeFrame ==
    [][\A p \in Handlers : DeleteFolderDone(p) =>
          LET D == Closure(folders, h[p].id)
          IN  /\ FoldersOutside(folders', D) = FoldersOutside(folders, D)
              /\ FilesOutside(files', D) = FilesOutside(files, D)]_vars

\* a deleteFolder has just removed a folder with a subfolder, and another
\* folder is still there
C6_Witness ==
    /\ status = 200
    /\ done.pc = "df_found"
    /\ Len(done.ids) >= 2
    /\ folders # <<>>

\* C7: every share link refers to a file that is in the files table.
C7_NoOrphanLinks ==
    \A l \in Range(shareLinks) : \E f \in Range(files) : f.id = l.fileId

\* C8: with nothing stored, upload A (700) succeeds and the usage is 700;
\* upload B (400) is then turned away; deleting A brings the usage to 0;
\* uploading B then succeeds and the usage is 400.
C8_EndToEnd ==
    /\ (status = 201 /\ done.pc = "up_stored" /\ nextId = 2 /\ done.size = 700)
          => userStorageUsage[done.userId] = 700
    /\ (h[1].pc = "up_checked" /\ nextId = 2 /\ Len(files) = 1 /\ files[1].size = 700
           /\ userStorageUsage[h[1].userId] = 700)
          => h[1].used + 400 > totalBytes
    /\ (status = 200 /\ done.pc = "del_removed" /\ nextId = 2 /\ files = <<>>
           /\ done.size = 700)
          => userStorageUsage[done.userId] = 0
    /\ (status = 201 /\ done.pc = "up_stored" /\ nextId = 4 /\ done.size = 400
           /\ done.used = 0 /\ Len(files) = 1)
          => userStorageUsage[done.userId] = 400

\* C9: when the backend write of an upload fails, the owner's usage is what
\* the handler read before the upload.
C9_FailedPutKeepsUsage ==
    (status = 500 /\ done.pc = "up_put")
        => userStorageUsage[done.userId] = done.used

\* C10: an upload whose backend write fails (the handler leaves the write
\* without the object stored) changes no File record, never reaches
\* createFile and answers 500.
C10_FailedPutNoMetadata ==
    [][\A p \in Handlers :
          (/\ h[p].pc = "up_put"
           /\ h'[p].pc # "up_put"
           /\ ~\E o \in objects' : o.key = h[p].key)
          => (files' = files /\ h'[p].pc = "idle" /\ status' = 500)]_vars

\* an upload has just been answered 500 after its write failed
C10_Witness ==
    /\ status = 500
    /\ done.pc = "up_put"
    /\ ~\E f \in Range(files) : f.key = done.key

\* C11: when the backend delete of an existing file of the caller fails, the
\* delete handler has still removed the File record and its share links.
C11_DeleteFailStillRemoves ==
    (status = 500 /\ done.pc = "del_unlink")
        => /\ ~\E f \in Range(files) : f.id = done.id
           /\ ~\E l \in Range(shareLinks) : l.fileId = done.id

\* C12: a backend delete of a key that is absent from the backend can
\* complete without error: whenever a delete handler is about to remove a
\* key that the backend does not hold, the removal can succeed (and then
\* leaves the backend as it is).
C12_DeleteAbsentKeyOk ==
    \A p \in Handlers :
        (h[p].pc = "del_unlink" /\ ~\E o \in objects : o.key = h[p].key)
            => ENABLED BackendDeleteOk(p)

\* C13: when the usage read by the upload handler plus the incoming size
\* exceeds totalBytes, the handler's next step is the rejection: it answers
\* 400, performs no backend put, creates no File record and leaves every
\* usage counter as it was.
C13_QuotaHardStop ==
    [][\A p \in Handlers, s \in Sizes :
          (/\ h[p].pc = "up_checked"
           /\ h[p].used + s > totalBytes
           /\ (UploadReject(p, s) \/ \E n \in Names : UploadStart(p, s, n)))
          => (/\ status' = 400
              /\ h'[p].pc = "idle"
              /\ objects' = objects
              /\ files' = files
              /\ userStorageUsage' = userStorageUsage)]_vars

\* an upload has just been turned away by the quota check while the owner
\* holds at least one file
C13_Witness ==
    /\ status = 400
    /\ done.pc = "up_checked"
    /\ files # <<>>
    /\ done.used > 0

\* C14: getShareLinkByToken(token) returns a link exactly when a link with
\* that token is stored and its expiresAt is null or later than now; at
\* now = expiresAt nothing is returned.  When a link is returned it is that
\* link.
C14_ResolveIffValid ==
    done.pc = "resolve" =>
        /\ done.link # NULL <=>
              \E l \in Range(shareLinks) :
                  l.token = done.token /\ (l.expiresAt = NULL \/ l.expiresAt > now)
        /\ done.link # NULL =>
              \E l \in Range(shareLinks) : l.token = done.token /\ l.id = done.link

\* C15: getShareLinkByToken gives the same answer, null, for a token that no
\* stored link carries (never issued, revoked, or removed with its file) and
\* for a token whose link is past its expiresAt.
C15_ResolveUniform ==
    done.pc = "resolve" =>
        ((\/ ~\E l \in Range(shareLinks) : l.token = done.token
          \/ \E l \in Range(shareLinks) :
                l.token = done.token /\ l.expiresAt # NULL /\ now > l.expiresAt)
         => done.link = NULL)

\* the token of a stored link that is past its expiresAt has just been
\* looked up and nothing was returned
C15_Witness ==
    /\ done.pc = "resolve"
    /\ done.link = NULL
    /\ \E l \in Range(shareLinks) :
          l.token = done.token /\ l.expiresAt # NULL /\ now > l.expiresAt

\* C16: the cascade of a folder delete is one step with respect to the other
\* handlers: with moves, uploads and creates of the same owner in flight, a
\* successful deleteFolder takes the tables from the state in which the
\* closure is computed to that state without the closure, and nothing that
\* was moved or placed into the folder is left referring to a removed folder.
C16_CascadeAtomic ==
    [][\A p \in Handlers : DeleteFolderDone(p) =>
          LET D == Closure(folders, h[p].id)
          IN  /\ files' = FilesOutside(files, D)
              /\ folders' = FoldersOutside(folders, D)
              /\ \A f \in Range(files') : f.folderId \notin D
              /\ \A f \in Range(folders') : f.parentId \notin D]_vars

\* a deleteFolder has just removed a folder and a file in it while a move of
\* a file by another handler is in flight
C16_Witness ==
    /\ status = 200
    /\ done.pc = "df_found"
    /\ Len(done.indices) >= 1
    /\ h[2].pc = "ufl_found"

\* C17: a createFolder whose parentId is non-null and is not a folder of the
\* caller is answered not-found and adds no folder.
C17_CreateFolderParentChecked ==
    [][\A q \in Ids :
          (getFolderById(q, "u1") = 0 /\ CreateFolder(1, "u1", "a", q))
          => (status' = 404 /\ folders' = folders)]_vars

\* C18: a move (updateFile with folderId, updateFolder with parentId) whose
\* target is non-null and is not in the folders table is answered with an
\* error and leaves the parent reference of the moved entity as it was.
C18_MoveToMissingParentFails ==
    [][\A q \in Ids :
          ((~\E f \in Range(folders) : f.id = q)
             /\ (UpdateFileRun(1, NoName, q) \/ UpdateFolderRun(1, NoName, q)))
          => (status' >= 400 /\ files' = files /\ folders' = folders)]_vars

\* C19: when an owner calls the update, delete, download or share handler
\* with the id of a file (update and delete: or a folder) that is absent or
\* belongs to another owner, the handler answers 404 and the three tables,
\* the storage backend and every usage counter stay as they were.
C19_MismatchIsNotFound ==
    [][\A p \in Handlers :
          LET r == IF status' = 0 THEN h'[p] ELSE done'   \* the request of the step
              u == r.userId
              id == r.id
              lookup ==          \* the step is the lookup of a handler called with (u, id)
                  CASE r.pc = "ufl_found" -> UpdateFileBegin(p, u, id)
                    [] r.pc = "del_found" -> DeleteFileBegin(p, u, id)
                    [] r.pc = "dl_found"  -> DownloadBegin(p, u, id)
                    [] r.pc = "sh_found"  -> ShareFileBegin(p, u, id)
                    [] r.pc = "uf_found"  -> UpdateFolderBegin(p, u, id)
                    [] r.pc = "df_found"  -> DeleteFolderBegin(p, u, id)
                    [] OTHER -> FALSE
              mismatch ==
                  IF r.pc \in {"uf_found", "df_found"}
                  THEN ~\E f \in Range(folders) : f.id = id /\ f.userId = u
                  ELSE ~\E f \in Range(files) : f.id = id /\ f.userId = u
          IN  (h[p].pc = "idle" /\ mismatch /\ lookup)
              => (/\ status' = 404
                  /\ h'[p].pc = "idle"
                  /\ tables' = tables
                  /\ objects' = objects
                  /\ userStorageUsage' = userStorageUsage)]_vars

\* another owner's file has just been asked for and the answer was 404
C19_Witness ==
    /\ status = 404
    /\ done.pc \in {"ufl_found", "del_found", "dl_found", "sh_found"}
    /\ \E f \in Range(files) : f.id = done.id /\ f.userId # done.userId

\* C20: deleteShareLink(id, ownerId) fails and leaves shareLinks as it is
\* when no link has that id or the link belongs to another owner; when it
\* succeeds, exactly the link with that id is removed and every other link
\* stays in place.
C20_RevokeOwnLinkOnly ==
    [][(status' \in {200, 500} /\ done'.pc \in {"rs_found", "revoke"}) =>
          LET sid == done'.link
              own == \E l \in Range(shareLinks) :
                        l.id = sid /\ l.userId = done'.userId
          IN  IF own
              THEN /\ status' = 200
                   /\ shareLinks' = SelectSeq(shareLinks, LAMBDA l : l.id # sid)
                   /\ Len(shareLinks') = Len(shareLinks) - 1
              ELSE /\ status' = 500
                   /\ shareLinks' = shareLinks]_vars

\* the revoke of another owner's link has just failed
C20_Witness ==
    /\ status = 500
    /\ done.pc = "revoke"
    /\ \E l \in Range(shareLinks) : l.id = done.link /\ l.userId # done.userId

\* C21: the usage of every owner is at least 0 in every state, and a release
\* of more bytes than the owner's usage holds sets the usage to exactly 0.
C21_UsageNeverNegative ==
    /\ [](\A u \in Users : userStorageUsage[u] >= 0)
    /\ [][\A p \in Handlers :
            (/\ h[p].pc = "del_sized"
             /\ h'[p].pc = "del_unlink"
             /\ h[p].fileSize > userStorageUsage[keyOwner(h[p].key)])
            => userStorageUsage'[keyOwner(h[p].key)] = 0]_vars

\* two deletes of the only file ever uploaded have both released its size:
\* the second release was larger than the usage that was left
C21_Witness ==
    \E p, q \in Handlers :
        /\ p # q
        /\ nextId = 2
        /\ h[p].pc \in {"del_unlink", "del_removed"}
        /\ h[q].pc \in {"del_unlink", "del_removed"}
        /\ h[p].key = h[q].key
        /\ h[p].fileSize > 0
        /\ h[q].fileSize > 0
        /\ userStorageUsage[keyOwner(h[p].key)] = 0

\* the number of pages that contain items: ceil(total / limit)
PageCount(total, limit) == (total + limit - 1) \div limit

\* C22: listFiles answers without error and with an empty slice for every
\* page number outside 1..ceil(total/limit): page 0, negative pages and pages
\* past the last one.
C22_OutOfRangePageEmpty ==
    (done.pc = "list" /\ done.page \notin 1..PageCount(done.total, done.limit))
        => (status = 200 /\ done.ids = <<>>)

\* the ids of the files of pages 1..n of a listing, in order
RECURSIVE PagesUpTo(_, _, _, _, _, _)
PagesUpTo(n, u, f, l, k, o) ==
    IF n = 0 THEN <<>>
    ELSE LET fs == paginatedFiles(files, u, f, n, l, k, o)
         IN  PagesUpTo(n - 1, u, f, l, k, o) \o [i \in 1..Len(fs) |-> fs[i].id]

\* C23: for a listing of owner u and folder f with a given sort key, order
\* and page size, pages 1..ceil(total/limit) together hold every file of u
\* in f exactly once and no other file, total is the number of these files,
\* and the same call on the same tables gives the same slice again.
C23_PagesCoverOnce ==
    done.pc = "list" =>
        LET u == done.userId
            f == done.id
            expected == {x.id : x \in {y \in Range(files) : y.userId = u /\ y.folderId = f}}
            all == PagesUpTo(PageCount(done.total, done.limit), u, f,
                             done.limit, done.sortBy, done.sortOrder)
            again == paginatedFiles(files, u, f, done.page, done.limit,
                                    done.sortBy, done.sortOrder)
        IN  /\ Range(all) = expected
            /\ Len(all) = Cardinality(expected)
            /\ done.total = Cardinality(expected)
            /\ done.ids = [i \in 1..Len(again) |-> again[i].id]

\* the second page of a listing of two files, one per page, has just been
\* returned
C23_Witness ==
    /\ done.pc = "list"
    /\ done.total = 2
    /\ done.limit = 1
    /\ done.page = 2
    /\ Len(done.ids) = 1

\* ------------------------------------------------------------------ C24
\* Renames and moves of one file and one folder of one owner while the clock
\* runs.
NextIdentity ==
    \/ (files = <<>> /\ UploadBegin(1, "u1")) \/ UploadStart(1, 300, "a") \/ PutOk(1)
    \/ UploadCreateFile(1, NULL)
    \/ (folders = <<>> /\ CreateFolder(1, "u1", "a", NULL))
    \/ \E f \in Issued : UpdateFileBegin(1, "u1", f)
    \/ \E n \in {NoName, "b"}, q \in {UNDEF} \cup Issued : UpdateFileRun(1, n, q)
    \/ \E f \in Issued : UpdateFolderBegin(1, "u1", f)
    \/ \E n \in {NoName, "b"}, q \in {UNDEF} \cup Issued : UpdateFolderRun(1, n, q)
    \/ Tick

SpecIdentity == InitLocal /\ [][NextIdentity]_vars

SameFileIdentity(a, b) ==
    /\ a.id = b.id /\ a.userId = b.userId /\ a.key = b.key
    /\ a.size = b.size /\ a.createdAt = b.createdAt

SameFolderIdentity(a, b) ==
    a.id = b.id /\ a.userId = b.userId /\ a.createdAt = b.createdAt

\* C24: a step of updateFile or updateFolder leaves every File's id, userId,
\* key, size and createdAt and every Folder's id, userId and createdAt as they
\* were; the records keep their number and their places.
C24_IdentityFieldsImmutable ==
    [][(status' = 200 /\ done'.pc \in {"ufl_found", "uf_found"}) =>
          /\ Len(files') = Len(files)
          /\ Len(folders') = Len(folders)
          /\ \A i \in 1..Len(files) : SameFileIdentity(files[i], files'[i])
          /\ \A i \in 1..Len(folders) : SameFolderIdentity(folders[i], folders'[i])]_vars

\* a file and a folder both renamed and moved after the clock has advanced
C24_Witness ==
    /\ status = 200 /\ done.pc \in {"ufl_found", "uf_found"}
    /\ \E i \in 1..Len(files) :
          /\ files[i].name = "b" /\ files[i].folderId # NULL
          /\ files[i].updatedAt > files[i].createdAt
    /\ \E i \in 1..Len(folders) :
          /\ folders[i].name = "b" /\ folders[i].parentId # NULL
          /\ folders[i].updatedAt > folders[i].createdAt

\* ------------------------------------------------------------- C25, C28
\* Uploads under filenames with and without separators, and downloads, on
\* either backend; nothing is deleted.
Filenames == {"a", "/../a", "/../../../a"}

NextStore ==
    \/ UploadBegin(1, "u1")
    \/ \E s \in {300, 400}, n \in Filenames : UploadStart(1, s, n)
    \/ PutOk(1)
    \/ PutFail(1)
    \/ UploadCreateFile(1, NULL)
    \/ \E f \in Issued : DownloadBegin(1, "u1", f)
    \/ DownloadOk(1)
    \/ DownloadFail(1)

SpecStore == Init /\ [][NextStore]_vars

\* C25: the bytes a download reads under the key of an upload are the bytes
\* that were uploaded (here: of the uploaded length), on either backend, the
\* key never having been deleted.
C25_RoundTrip ==
    (status = 200 /\ done.pc = "dl_found") => done.fileSize = done.size

\* C28: on the local backend every stored object lies below the uploads root.
C28_LocalContainment ==
    storageType = "local" =>
        \A o \in objects :
            /\ Len(o.path) > Len(localStoragePath)
            /\ SubSeq(o.path, 1, Len(localStoragePath)) = localStoragePath

\* C26: while the backend write of an upload is in progress, and until its
\* File record is inserted, the owner's usage is still what the upload's
\* quota check read: the upload is not counted yet.
C26_UsageRaisedAfterPut ==
    \A p \in Handlers :
        h[p].pc \in {"up_put", "up_stored"} =>
            userStorageUsage[h[p].userId] = h[p].used

\* C27: once a file delete has released the bytes of the file, the File record
\* is no longer in the files table.
C27_ReleaseAfterRecordRemoved ==
    \A p \in Handlers :
        (h[p].pc \in {"del_unlink", "del_removed"} /\ h[p].fileSize > 0) =>
            ~\E f \in Range(files) : f.id = h[p].id

\* C29: a deleteFolder call does not fail on a folder that exists: when it is
\* answered 500, the folder was not there.
C29_DeleteFolderTerminates ==
    (status = 500 /\ done.pc = "df_found") =>
        getFolderById(done.id, done.userId) = 0

\* C30: when deleteFolder completes, the owner's usage has gone down by the
\* sizes of the owner's files that the cascade removed, and no object of a
\* removed file is left in the backend.
C30_FolderDeleteReleasesQuota ==
    [][\A p \in Handlers :
          DeleteFolderDone(p) =>
              LET u == h[p].userId
              IN  /\ userStorageUsage'[u] =
                        userStorageUsage[u] - (SumSizes(files, u) - SumSizes(files', u))
                  /\ \A f \in Range(files) :
                        f \notin Range(files') =>
                            ~\E o \in objects' : o.path = location(f.key)]_vars

\* C31: a file delete answered 200 has released exactly the size recorded in
\* the File record (the bytes passed to updateUserStorageUsage are that size),
\* on either backend.
C31_DeleteReleasesRecordedSize ==
    (status = 200 /\ done.pc = "del_removed") => done.fileSize = done.size

\* ------------------------------------------------------------------ C32
\* Deletes of one owner's files by two requests at once on the local backend;
\* the backend fails only where it must (unlink of a path already removed).
\* The files come from uploads by the first handler.
NextRace ==
    \/ UploadBegin(1, "u1")
    \/ \E s \in {300, 700} : UploadStart(1, s, "a")
    \/ PutOk(1)
    \/ UploadCreateFile(1, NULL)
    \/ \E p \in {1, 2} :
          \/ \E f \in Issued : DeleteFileBegin(p, "u1", f)
          \/ DeleteFileStat(p)
          \/ DeleteFileRelease(p)
          \/ BackendDeleteOk(p)
          \/ (/\ ~\E o \in objects : o.path = location(h[p].key)
              /\ BackendDeleteFail(p))      \* unlink fails on ENOENT only
          \/ DeleteFileMeta(p)

SpecRace == InitLocal /\ [][NextRace]_vars

\* C32: when the delete handlers have all answered, whatever their
\* interleaving, the owner's usage is the sum of the sizes of the owner's
\* remaining files: the bytes of a file deleted by two requests at once were
\* released once.
C32_ConcurrentDeletesReleaseOnce ==
    (Quiescent /\ done.pc = "del_removed" /\ status \in {200, 500}) =>
        userStorageUsage["u1"] = SumSizes(files, "u1")

\* ------------------------------------------------------------------ C33
\* The four mutating methods of FileService called with any id, by either
\* user, on tables filled by uploads and createFolder of u1.
NextNotFound ==
    \/ UploadBegin(1, "u1") \/ UploadStart(1, 300, "a") \/ PutOk(1)
    \/ UploadCreateFile(1, NULL)
    \/ CreateFolder(1, "u1", "a", NULL)
    \/ \E m \in ServiceMethods, u \in Users, id \in Ids : ServiceCall(1, m, u, id)
    \/ UpdateFileRun(1, "b", UNDEF)
    \/ UpdateFolderRun(1, "b", UNDEF)
    \/ DeleteFileMeta(1)
    \/ DeleteFolderRun(1)

SpecNotFound == InitLocal /\ [][NextNotFound]_vars

\* the target of the method that handler p is about to run is missing: no
\* File / Folder with the id, or, for deleteFolder, none of the caller's
TargetMissing(p) ==
    CASE h[p].pc \in {"ufl_found", "del_removed"} ->
            ~\E f \in Range(files) : f.id = h[p].id
      [] h[p].pc = "uf_found" ->
            ~\E f \in Range(folders) : f.id = h[p].id
      [] h[p].pc = "df_found" ->
            ~\E f \in Range(folders) : f.id = h[p].id /\ f.userId = h[p].userId
      [] OTHER -> FALSE

\* C33: updateFile, updateFolder, deleteFile and deleteFolder called for a
\* missing target (for deleteFolder: absent or not the caller's) throw, and
\* the files, folders and shareLinks tables are as they were.
C33_MissingTargetThrows ==
    [][\A p \in Handlers :
          (TargetMissing(p) /\ h'[p].pc = "idle") =>
              (status' = 500 /\ tables' = tables)]_vars

\* deleteFolder has just thrown for a folder that exists but is another user's
C33_Witness ==
    /\ status = 500 /\ done.pc = "df_found"
    /\ \E f \in Range(folders) : f.id = done.id /\ f.userId # done.userId

\* C34: a call of getShareLinkByToken changes none of the files, folders and
\* shareLinks tables, whatever the token; and a link past its expiresAt leaves
\* the shareLinks table only in a step that revokes it or removes its File.
C34_LookupNeverPurges ==
    [][/\ done'.pc = "resolve" => tables' = tables
       /\ \A l \in Range(shareLinks) :
             (expired(l, now) /\ l \notin Range(shareLinks')) =>
                 \/ (done'.pc = "rs_found" /\ done'.link = l.id)
                 \/ ~\E f \in Range(files') : f.id = l.fileId]_vars

\* the token of a stored link past its expiresAt has just been looked up, and
\* the link is still stored
C34_Witness ==
    /\ done.pc = "resolve"
    /\ done.link = NULL
    /\ \E i \in 1..Len(shareLinks) :
          /\ shareLinks[i].token = done.token
          /\ expired(shareLinks[i], now)
          /\ \E f \in Range(files) : f.id = shareLinks[i].fileId

\* ------------------------------------------------------------------ C35
\* FileService.deleteFile applied to tables as two uploads of u1 and up to
\* MaxLinks shares of the two files, in any order, leave them.
MaxLinks == 4

LinkTable(fileIds) ==
    [i \in 1..Len(fileIds) |->
        [id |-> 4 + i, fileId |-> fileIds[i], userId |-> "u1",
         token |-> newToken(4 + i), expiresAt |-> NULL, createdAt |-> 0]]

InitPurge ==
    /\ storageType = "s3"
    /\ files = [i \in 1..2 |->
          [id |-> 2 * i, userId |-> "u1", name |-> "a", size |-> 300,
           key |-> fileKey("u1", 2 * i - 1, "a"), folderId |-> NULL,
           createdAt |-> 0, updatedAt |-> 0]]
    /\ folders = <<>>
    /\ \E n \in 0..MaxLinks : \E fileIds \in [1..n -> {2, 4}] :
          shareLinks = LinkTable(fileIds)
    /\ userStorageUsage = [u \in Users |-> IF u = "u1" THEN 600 ELSE 0]
    /\ objects = {[key |-> fileKey("u1", k, "a"), path |-> fileKey("u1", k, "a"),
                   bytes |-> 300] : k \in {1, 3}}
    /\ nextId = 4 + Len(shareLinks)
    /\ now = 0
    /\ h = [p \in Handlers |-> Idle]
    /\ status = 0
    /\ done = Idle

NextPurge ==
    \/ \E id \in {2, 4, BogusId} : ServiceCall(1, "del_removed", "u1", id)
    \/ DeleteFileMeta(1)

SpecPurge == InitPurge /\ [][NextPurge]_vars

\* C35: a deleteFile(id) that returns has removed the File with that id and
\* the ShareLinks whose fileId is id, and nothing else: the other Files and
\* ShareLinks are there in their order, the folders table is as it was.
C35_DeleteFileFrame ==
    [][\A p \in Handlers :
          (h[p].pc = "del_removed" /\ h'[p].pc = "idle" /\ status' = 200) =>
              /\ \E f \in Range(files) : f.id = h[p].id
              /\ files' = SelectSeq(files, LAMBDA f : f.id # h[p].id)
              /\ shareLinks' = SelectSeq(shareLinks, LAMBDA l : l.fileId # h[p].id)
              /\ folders' = folders]_vars

\* file 2 has just been deleted with its two links, which stood first and
\* third among four; the two links of file 4 are left
C35_Witness ==
    /\ status = 200 /\ done.pc = "del_removed" /\ done.id = 2
    /\ Len(files) = 1
    /\ Len(shareLinks) = 2
    /\ shareLinks[1].id = 6 /\ shareLinks[2].id = 8

\* C36: every File with a non-null folderId and every Folder with a non-null
\* parentId refers to a folder that is in the folders table and has the same
\* userId.
C36_ParentLinksResolve ==
    /\ \A f \in Range(files) :
          f.folderId # NULL =>
              \E d \in Range(folders) : d.id = f.folderId /\ d.userId = f.userId
    /\ \A f \in Range(folders) :
          f.parentId # NULL =>
              \E d \in Range(folders) : d.id = f.parentId /\ d.userId = f.userId

\* ------------------------------------------------------------------ C37
\* Two owners who both create folders and upload files, under any folder id
\* they have seen, and delete folders; one request at a time.
NextIsolation ==
    \/ \E u \in Users, q \in {NULL} \cup Issued : CreateFolder(1, u, "a", q)
    \/ \E u \in Users : UploadBegin(1, u)
    \/ UploadStart(1, 300, "a") \/ PutOk(1)
    \/ \E q \in {NULL} \cup Issued : UploadCreateFile(1, q)
    \/ DeleteFolderSteps(1, Users)

SpecIsolation == InitLocal /\ [][NextIsolation]_vars

\* C37: a step of a request made by owner U removes or changes no File, Folder
\* or ShareLink whose userId is another owner's, and changes no other owner's
\* usage.
C37_CrossOwnerIsolation ==
    [][LET U == (IF status' = 0 THEN h'[1] ELSE done').userId
       IN  /\ \A f \in Range(files) : f.userId # U => f \in Range(files')
           /\ \A f \in Range(folders) : f.userId # U => f \in Range(folders')
           /\ \A l \in Range(shareLinks) : l.userId # U => l \in Range(shareLinks')
           /\ \A v \in Users \ {U} : userStorageUsage'[v] = userStorageUsage[v]]_vars

\* C38: no owner's usage is ever above totalBytes.
C38_QuotaNeverOvershot ==
    \A u \in Users : userStorageUsage[u] <= totalBytes

\* ------------------------------------------------------------------ C39
\* Two owners who both upload files and delete them, one request at a time,
\* on the local backend.
NextKeys ==
    \/ \E u \in Users : UploadBegin(1, u)
    \/ \E s \in {300, 400} : UploadStart(1, s, "a")
    \/ PutOk(1)
    \/ UploadCreateFile(1, NULL)
    \/ \E u \in Users, f \in Ids : DeleteFileBegin(1, u, f)
    \/ DeleteFileStat(1)
    \/ DeleteFileRelease(1)
    \/ BackendDeleteOk(1)
    \/ DeleteFileMeta(1)

SpecKeys == InitLocal /\ [][NextKeys]_vars

\* C39: the first segment of every File's key is the File's userId, and the
\* step of a file delete that lowers the usage lowers it for the userId of the
\* File being deleted and leaves every other owner's usage as it was.
C39_KeyOwnerIsFileOwner ==
    /\ [](\A f \in Range(files) :
             keyOwner(f.key) = f.userId /\ keySegments(f.key)[1] = <<0, f.userId>>)
    /\ [][\A p \in Handlers :
             (h[p].pc = "del_sized" /\ h'[p].pc = "del_unlink") =>
                 \A f \in Range(files) :
                     f.id = h[p].id =>
                         /\ keyOwner(h[p].key) = f.userId
                         /\ \A v \in Users \ {f.userId} :
                               userStorageUsage'[v] = userStorageUsage[v]]_vars

\* u2 has just deleted a file of its own while u1 has a file stored: u2's
\* bytes are released, u1's are still counted
C39_Witness ==
    /\ status = 200 /\ done.pc = "del_removed" /\ done.userId = "u2"
    /\ done.fileSize > 0
    /\ userStorageUsage["u2"] = 0
    /\ userStorageUsage["u1"] > 0
    /\ \E f \in Range(files) : f.userId = "u1"
====
